---- MODULE Spec2Model ----
(***************************************************************************)
(* Model of the request/response pipeline of jira/agile/agile.go:          *)
(* New, Client.newRequest, Client.call, the two transformTheHTTPResponse   *)
(* routines and the two transformStructToReader routines.                  *)
(*                                                                         *)
(* Go values are modelled as records.  A nil pointer to a record type is   *)
(* the record [kind |-> "nil"]; a nil error is NilErr.  Byte strings are   *)
(* sequences of one-character strings.                                     *)
(***************************************************************************)
EXTENDS Integers, Sequences, FiniteSets, TLC

\* ---------------------------------------------------------------- bounds
MaxBodyLen == 2

\* ------------------------------------------------------ program constants
SuccessLow == 200
SuccessHigh == 300

requestCreationError == "request creation failed: %v"
urlParsedError == "URL parsing failed: %v"
requestFailedError == "request failed. Please analyze the request body for more details. Status Code: %d"
structureNotParsedError == [kind |-> "errorString", msg |-> "failed to parse the interface pointer, please provide a valid one"]
nilResponseError == [kind |-> "errorString", msg |-> "validation failed, please provide a http.Response pointer"]

\* ------------------------------------------------------------ nil values
NilErr == [kind |-> "nil"]
NilPtr == "nil"
NilClient == [kind |-> "nil"]
NilRequest == [kind |-> "nil"]
NilResponse == [kind |-> "nil"]
NilEnvelope == [kind |-> "nil"]
NilReader == [kind |-> "nil"]
NilStructure == [kind |-> "untypedNil"]
NoHeader == << >>

\* fmt.Errorf(format, arg): an error whose text is the format with arg filled in
Errorf(format, arg) == [kind |-> "fmtError", format |-> format, arg |-> arg]

\* ------------------------------------------------------------------ JSON
\* The byte alphabet of the modelled wire payloads.
Chars == {"[", "]", "1"}

DigitChars == <<"0", "1", "2", "3", "4", "5", "6", "7", "8", "9">>

RECURSIVE Digits(_)
Digits(n) ==
    IF n < 10 THEN <<DigitChars[n + 1]>>
    ELSE Digits(n \div 10) \o <<DigitChars[(n % 10) + 1]>>

\* encoding/json encoder on the modelled values: numbers and arrays
RECURSIVE Encode(_)
Encode(v) ==
    CASE v.t = "num" -> Digits(v.n)
      [] v.t = "arr" ->
            <<"[">> \o (IF v.elems = << >> THEN << >> ELSE Encode(v.elems[1])) \o <<"]">>
      [] v.t = "null" -> <<"n", "u", "l", "l">>

IsDigits(s) == Len(s) > 0 /\ \A i \in 1..Len(s) : s[i] \in {"0", "1", "2", "3", "4", "5", "6", "7", "8", "9"}

\* encoding/json syntax check of a complete document
RECURSIVE ValidJSON(_)
ValidJSON(s) ==
    \/ IsDigits(s)
    \/ s = <<"n", "u", "l", "l">>
    \/ /\ Len(s) >= 2
       /\ s[1] = "["
       /\ s[Len(s)] = "]"
       /\ (Len(s) = 2 \/ ValidJSON(SubSeq(s, 2, Len(s) - 1)))

JSONKind(s) ==
    IF IsDigits(s) THEN "num" ELSE IF s[1] = "[" THEN "arr" ELSE "null"

\* json.Unmarshal(data, &structure) for a non-nil destination: the error it
\* returns.  dest.kind is the type the destination pointer points at.
Unmarshal(data, dest) ==
    IF ~ValidJSON(data) THEN [kind |-> "SyntaxError"]
    ELSE IF dest.kind = "interface" \/ JSONKind(data) = "null" THEN NilErr
    ELSE IF dest.kind = "int" /\ JSONKind(data) # "num" THEN [kind |-> "UnmarshalTypeError"]
    ELSE IF dest.kind = "slice" /\ JSONKind(data) # "arr" THEN [kind |-> "UnmarshalTypeError"]
    ELSE NilErr

\* json.Marshal(structure) for a non-nil interface value
Marshal(structure) ==
    IF structure.kind \in {"chan", "func"}
    THEN [bytes |-> << >>, err |-> [kind |-> "UnsupportedTypeError"]]
    ELSE IF structure.isNil
    THEN [bytes |-> Encode([t |-> "null"]), err |-> NilErr]
    ELSE [bytes |-> Encode(structure.val), err |-> NilErr]

\* reflect.ValueOf(structure).IsNil(): panics for kinds that cannot be nil
IsNilPanics(structure) == structure.kind \notin {"ptr", "slice", "map", "chan", "func", "interface"}

\* ------------------------------------------------------------------- URLs
\* url.Parse: a string is modelled by whether it parses and, if it does, by
\* its path segments, whether it is rooted and whether it ends in a slash.
UrlParse(s) ==
    IF s.ok THEN [url |-> s, err |-> NilErr]
    ELSE [url |-> s, err |-> [kind |-> "url.Error", op |-> "parse"]]

\* strings.HasSuffix(site, "/") / site += "/"
WithTrailingSlash(site) == IF site.slash THEN site ELSE [site EXCEPT !.slash = TRUE]

ButLast(s) == IF s = << >> THEN << >> ELSE SubSeq(s, 1, Len(s) - 1)

\* (*url.URL).ResolveReference(rel).String() (RFC 3986 section 5.2, paths only)
ResolveReference(base, rel) ==
    IF rel.abs THEN <<base.host>> \o rel.segs
    ELSE <<base.host>> \o (IF base.slash THEN base.segs ELSE ButLast(base.segs)) \o rel.segs

\* ------------------------------------------------------------ input sets
HTTPClients == {NilPtr, "custom"}
SiteStrings ==
    { [ok |-> TRUE,  host |-> "example", segs |-> <<"rest", "agile">>, slash |-> TRUE],
      [ok |-> TRUE,  host |-> "example", segs |-> <<"rest", "agile">>, slash |-> FALSE],
      [ok |-> FALSE, host |-> "example", segs |-> <<"%zz">>, slash |-> FALSE] }
Paths ==
    { [ok |-> TRUE,  abs |-> FALSE, segs |-> <<"board", "1">>],
      [ok |-> TRUE,  abs |-> TRUE,  segs |-> <<"sprint">>],
      [ok |-> FALSE, abs |-> FALSE, segs |-> <<"%zz">>] }
Methods == {"GET", "POST", "BAD METHOD"}
ValidMethods == {"GET", "POST"}
Contexts == {"background", NilPtr}
Mails == {"m1"}
Tokens == {"t1"}
Agents == {"a1"}
StatusCodes == {199, 200, 299, 300, 404}
ResponseHeaders == {NoHeader, ("Content-Type" :> <<"application/json">>)}
TransportErrors == {[kind |-> "net.Error", msg |-> "timeout"], [kind |-> "net.Error", msg |-> "refused"]}

RECURSIVE SeqsUpTo(_)
SeqsUpTo(n) ==
    IF n = 0 THEN {<< >>}
    ELSE LET shorter == SeqsUpTo(n - 1)
         IN  shorter \cup {Append(s, c) : s \in {t \in shorter : Len(t) = n - 1}, c \in Chars}

\* a response body: the bytes the stream delivers, and whether reading it
\* ends in an error instead of EOF
Bodies ==
    {[data |-> d, fail |-> FALSE] : d \in SeqsUpTo(MaxBodyLen)}
        \cup {[data |-> <<"1">>, fail |-> TRUE]}

\* what the transport does with a request: an error, or a response with
\* this status, header and body; redirected tells whether the response's
\* Request is the one sent or the one of a followed redirect
DoOutcomes ==
    {[err |-> e, StatusCode |-> 0, Header |-> NoHeader, Body |-> [data |-> << >>, fail |-> FALSE], redirected |-> FALSE] :
        e \in TransportErrors}
    \cup
    {[err |-> NilErr, StatusCode |-> s, Header |-> h, Body |-> b, redirected |-> r] :
        s \in StatusCodes, h \in ResponseHeaders, b \in Bodies, r \in BOOLEAN}

\* destination structures handed to call
Destinations ==
    {NilStructure, [kind |-> "interface"], [kind |-> "int"], [kind |-> "slice"]}

\* payload structures handed to transformStructToReader
Payloads ==
    { NilStructure,
      [kind |-> "ptr", isNil |-> TRUE, val |-> [t |-> "null"]],
      [kind |-> "ptr", isNil |-> FALSE, val |-> [t |-> "num", n |-> 11]],
      [kind |-> "slice", isNil |-> FALSE, val |-> [t |-> "arr", elems |-> <<[t |-> "num", n |-> 1]>>]],
      [kind |-> "chan", isNil |-> FALSE, val |-> [t |-> "null"]],
      [kind |-> "struct", isNil |-> FALSE, val |-> [t |-> "num", n |-> 1]] }

\* ------------------------------------------------------ the pure routines
\* ioutil.ReadAll(response.Body)
ReadAll(body) ==
    IF body.fail THEN [bytes |-> body.data, err |-> [kind |-> "io.Error", msg |-> "unexpected EOF"]]
    ELSE [bytes |-> body.data, err |-> NilErr]

\* (*http.Request).SetBasicAuth: the Authorization header value
BasicAuthValue(mail, token) == <<"Basic", mail, ":", token>>

\* http.Header.Set
HeaderSet(h, name, value) == (name :> value) @@ h

\* http.NewRequestWithContext(ctx, method, endpoint, payload)
NewRequestWithContext(ctx, method, endpoint, payload) ==
    IF method \notin ValidMethods
    THEN [request |-> NilRequest, err |-> [kind |-> "errorString", msg |-> "net/http: invalid method"]]
    ELSE IF ctx = NilPtr
    THEN [request |-> NilRequest, err |-> [kind |-> "errorString", msg |-> "net/http: nil Context"]]
    ELSE [request |-> [kind |-> "request", Method |-> method, URL |-> endpoint,
                       Body |-> payload, Header |-> NoHeader],
          err |-> NilErr]

\* newRequest as it would be if the error of url.Parse were dropped
newRequest_IgnoreParseError(c, ctx, method, apiEndpoint, payload) ==
    LET parsed == UrlParse(apiEndpoint) IN
    IF c = NilClient
    THEN [request |-> NilRequest, err |-> NilErr, panic |-> TRUE]
    ELSE
    LET endpoint == ResolveReference(c.Site, parsed.url)
        built == NewRequestWithContext(ctx, method, endpoint, payload)
    IN  IF built.err # NilErr
        THEN [request |-> NilRequest, err |-> Errorf(requestCreationError, built.err), panic |-> FALSE]
        ELSE
        LET r1 == IF c.Auth.basicAuthProvided
                  THEN [built.request EXCEPT !.Header =
                            HeaderSet(@, "Authorization", BasicAuthValue(c.Auth.mail, c.Auth.token))]
                  ELSE built.request
            r2 == IF c.Auth.userAgentProvided
                  THEN [r1 EXCEPT !.Header = HeaderSet(@, "User-Agent", <<c.Auth.agent>>)]
                  ELSE r1
        IN  [request |-> r2, err |-> NilErr, panic |-> FALSE]

\* newRequest as it would be if the User-Agent header were set unconditionally
newRequest_AlwaysUserAgent(c, ctx, method, apiEndpoint, payload) ==
    LET parsed == UrlParse(apiEndpoint) IN
    IF parsed.err # NilErr
    THEN [request |-> NilRequest, err |-> Errorf(urlParsedError, parsed.err), panic |-> FALSE]
    ELSE IF c = NilClient
    THEN [request |-> NilRequest, err |-> NilErr, panic |-> TRUE]
    ELSE
    LET endpoint == ResolveReference(c.Site, parsed.url)
        built == NewRequestWithContext(ctx, method, endpoint, payload)
    IN  IF built.err # NilErr
        THEN [request |-> NilRequest, err |-> Errorf(requestCreationError, built.err), panic |-> FALSE]
        ELSE
        LET r1 == IF c.Auth.basicAuthProvided
                  THEN [built.request EXCEPT !.Header =
                            HeaderSet(@, "Authorization", BasicAuthValue(c.Auth.mail, c.Auth.token))]
                  ELSE built.request
            r2 == [r1 EXCEPT !.Header = HeaderSet(@, "User-Agent", <<c.Auth.agent>>)]
        IN  [request |-> r2, err |-> NilErr, panic |-> FALSE]

\* Client.newRequest.  c is the receiver: NilClient when the method is
\* reached through a nil *Client.  panic: a nil-pointer dereference.
newRequest(c, ctx, method, apiEndpoint, payload) ==
    LET parsed == UrlParse(apiEndpoint) IN
    IF parsed.err # NilErr
    THEN [request |-> NilRequest, err |-> Errorf(urlParsedError, parsed.err), panic |-> FALSE]
    ELSE IF c = NilClient
    THEN [request |-> NilRequest, err |-> NilErr, panic |-> TRUE]
    ELSE
    LET endpoint == ResolveReference(c.Site, parsed.url)
        built == NewRequestWithContext(ctx, method, endpoint, payload)
    IN  IF built.err # NilErr
        THEN [request |-> NilRequest, err |-> Errorf(requestCreationError, built.err), panic |-> FALSE]
        ELSE
        LET r1 == IF c.Auth.basicAuthProvided
                  THEN [built.request EXCEPT !.Header =
                            HeaderSet(@, "Authorization", BasicAuthValue(c.Auth.mail, c.Auth.token))]
                  ELSE built.request
            r2 == IF c.Auth.userAgentProvided
                  THEN [r1 EXCEPT !.Header = HeaderSet(@, "User-Agent", <<c.Auth.agent>>)]
                  ELSE r1
        IN  [request |-> r2, err |-> NilErr, panic |-> FALSE]

\* Client.transformTheHTTPResponse as it would be with the upper end of the
\* success range included
ClientTransformTheHTTPResponse_InclusiveRange(response, structure) ==
    IF response = NilResponse
    THEN [result |-> NilEnvelope, err |-> nilResponseError]
    ELSE
    LET responseTransformed ==
            [kind |-> "ResponseScheme", Code |-> response.StatusCode,
             Endpoint |-> response.Request.URL, Method |-> response.Request.Method,
             Bytes |-> << >>, Headers |-> NoHeader]
        wasSuccess == response.StatusCode >= SuccessLow /\ response.StatusCode <= SuccessHigh
    IN  IF ~wasSuccess
        THEN [result |-> responseTransformed, err |-> Errorf(requestFailedError, response.StatusCode)]
        ELSE
        LET read == ReadAll(response.Body) IN
        IF read.err # NilErr
        THEN [result |-> responseTransformed, err |-> read.err]
        ELSE
        LET decodeErr == IF structure # NilStructure THEN Unmarshal(read.bytes, structure) ELSE NilErr IN
        IF decodeErr # NilErr
        THEN [result |-> responseTransformed, err |-> decodeErr]
        ELSE [result |-> [responseTransformed EXCEPT !.Bytes = @ \o read.bytes], err |-> NilErr]

\* Client.transformTheHTTPResponse (the envelope is models.ResponseScheme)
ClientTransformTheHTTPResponse(response, structure) ==
    IF response = NilResponse
    THEN [result |-> NilEnvelope, err |-> nilResponseError]
    ELSE
    LET responseTransformed ==
            [kind |-> "ResponseScheme", Code |-> response.StatusCode,
             Endpoint |-> response.Request.URL, Method |-> response.Request.Method,
             Bytes |-> << >>, Headers |-> NoHeader]
        wasSuccess == response.StatusCode >= SuccessLow /\ response.StatusCode < SuccessHigh
    IN  IF ~wasSuccess
        THEN [result |-> responseTransformed, err |-> Errorf(requestFailedError, response.StatusCode)]
        ELSE
        LET read == ReadAll(response.Body) IN
        IF read.err # NilErr
        THEN [result |-> responseTransformed, err |-> read.err]
        ELSE
        LET decodeErr == IF structure # NilStructure THEN Unmarshal(read.bytes, structure) ELSE NilErr IN
        IF decodeErr # NilErr
        THEN [result |-> responseTransformed, err |-> decodeErr]
        ELSE [result |-> [responseTransformed EXCEPT !.Bytes = @ \o read.bytes], err |-> NilErr]

\* the top-level transformTheHTTPResponse as it would be without the final
\* write of the body into the envelope
transformTheHTTPResponse_SkipWrite(response, structure) ==
    IF response = NilResponse
    THEN [result |-> NilEnvelope, err |-> nilResponseError]
    ELSE
    LET responseTransformed ==
            [kind |-> "ResponseScheme", Code |-> response.StatusCode,
             Endpoint |-> response.Request.URL, Method |-> response.Request.Method,
             Bytes |-> << >>, Headers |-> NoHeader]
        wasSuccess == response.StatusCode >= SuccessLow /\ response.StatusCode < SuccessHigh
    IN  IF ~wasSuccess
        THEN [result |-> responseTransformed, err |-> Errorf(requestFailedError, response.StatusCode)]
        ELSE
        LET read == ReadAll(response.Body) IN
        IF read.err # NilErr
        THEN [result |-> responseTransformed, err |-> read.err]
        ELSE
        LET decodeErr == IF structure # NilStructure THEN Unmarshal(read.bytes, structure) ELSE NilErr IN
        IF decodeErr # NilErr
        THEN [result |-> responseTransformed, err |-> decodeErr]
        ELSE [result |-> responseTransformed, err |-> NilErr]

\* the top-level transformTheHTTPResponse (the envelope is the local ResponseScheme)
transformTheHTTPResponse(response, structure) ==
    IF response = NilResponse
    THEN [result |-> NilEnvelope, err |-> nilResponseError]
    ELSE
    LET responseTransformed ==
            [kind |-> "ResponseScheme", Code |-> response.StatusCode,
             Endpoint |-> response.Request.URL, Method |-> response.Request.Method,
             Bytes |-> << >>, Headers |-> NoHeader]
        wasSuccess == response.StatusCode >= SuccessLow /\ response.StatusCode < SuccessHigh
    IN  IF ~wasSuccess
        THEN [result |-> responseTransformed, err |-> Errorf(requestFailedError, response.StatusCode)]
        ELSE
        LET read == ReadAll(response.Body) IN
        IF read.err # NilErr
        THEN [result |-> responseTransformed, err |-> read.err]
        ELSE
        LET decodeErr == IF structure # NilStructure THEN Unmarshal(read.bytes, structure) ELSE NilErr IN
        IF decodeErr # NilErr
        THEN [result |-> responseTransformed, err |-> decodeErr]
        ELSE [result |-> [responseTransformed EXCEPT !.Bytes = @ \o read.bytes], err |-> NilErr]

\* (*http.Client).Do: the transport's answer to one request.  A response
\* carries the request that produced it; after a redirect that is the
\* request for the redirect target.
HTTPDo(request, outcome) ==
    IF outcome.err # NilErr
    THEN [response |-> NilResponse, err |-> outcome.err]
    ELSE [response |->
            [kind |-> "response", StatusCode |-> outcome.StatusCode, Header |-> outcome.Header,
             Body |-> outcome.Body,
             Request |-> IF outcome.redirected
                         THEN [request EXCEPT !.URL = Append(@, "moved"), !.Method = "GET"]
                         ELSE request],
          err |-> NilErr]

\* call as it would be if it dropped the envelope whenever the transformer fails
call_DropEnvelopeOnError(c, request, structure, outcome) ==
    LET done == HTTPDo(request, outcome) IN
    IF done.err # NilErr
    THEN [result |-> NilEnvelope, err |-> done.err, response |-> done.response,
          attempts |-> 1, transformed |-> FALSE, panic |-> FALSE]
    ELSE LET t == ClientTransformTheHTTPResponse(done.response, structure)
         IN  [result |-> IF t.err # NilErr THEN NilEnvelope ELSE t.result, err |-> t.err,
              response |-> done.response, attempts |-> 1, transformed |-> TRUE, panic |-> FALSE]

\* call as it would be if it re-issued the request after a transport error
call_Retry(c, request, structure, outcome) ==
    LET done == HTTPDo(request, outcome) IN
    IF done.err # NilErr
    THEN [result |-> NilEnvelope, err |-> HTTPDo(request, outcome).err, response |-> done.response,
          attempts |-> 2, transformed |-> FALSE, panic |-> FALSE]
    ELSE LET t == ClientTransformTheHTTPResponse(done.response, structure)
         IN  [result |-> t.result, err |-> t.err, response |-> done.response,
              attempts |-> 1, transformed |-> TRUE, panic |-> FALSE]

\* Client.call.  attempts counts the transport invocations, transformed
\* tells whether the Response Transformer ran; panic: c.HTTP on a nil *Client.
call(c, request, structure, outcome) ==
    IF c = NilClient
    THEN [result |-> NilEnvelope, err |-> NilErr, response |-> NilResponse,
          attempts |-> 0, transformed |-> FALSE, panic |-> TRUE]
    ELSE
    LET done == HTTPDo(request, outcome) IN
    IF done.err # NilErr
    THEN [result |-> NilEnvelope, err |-> done.err, response |-> done.response,
          attempts |-> 1, transformed |-> FALSE, panic |-> FALSE]
    ELSE LET t == ClientTransformTheHTTPResponse(done.response, structure)
         IN  [result |-> t.result, err |-> t.err, response |-> done.response,
              attempts |-> 1, transformed |-> TRUE, panic |-> FALSE]

\* Client.transformStructToReader; panic: reflect's IsNil on a kind that has no nil
ClientTransformStructToReader(structure) ==
    IF structure = NilStructure
    THEN [reader |-> NilReader, err |-> structureNotParsedError, panic |-> FALSE]
    ELSE IF IsNilPanics(structure)
    THEN [reader |-> NilReader, err |-> NilErr, panic |-> TRUE]
    ELSE IF structure.isNil
    THEN [reader |-> NilReader, err |-> structureNotParsedError, panic |-> FALSE]
    ELSE
    LET structureAsBodyBytes == Marshal(structure) IN
    IF structureAsBodyBytes.err # NilErr
    THEN [reader |-> NilReader, err |-> structureAsBodyBytes.err, panic |-> FALSE]
    ELSE [reader |-> [kind |-> "reader", bytes |-> structureAsBodyBytes.bytes], err |-> NilErr, panic |-> FALSE]

\* the top-level transformStructToReader as it would be with the untyped
\* nil test alone
transformStructToReader_NoReflect(structure) ==
    IF structure = NilStructure
    THEN [reader |-> NilReader, err |-> structureNotParsedError, panic |-> FALSE]
    ELSE
    LET structureAsBodyBytes == Marshal(structure) IN
    IF structureAsBodyBytes.err # NilErr
    THEN [reader |-> NilReader, err |-> structureAsBodyBytes.err, panic |-> FALSE]
    ELSE [reader |-> [kind |-> "reader", bytes |-> structureAsBodyBytes.bytes], err |-> NilErr, panic |-> FALSE]

\* the top-level transformStructToReader
transformStructToReader(structure) ==
    IF structure = NilStructure
    THEN [reader |-> NilReader, err |-> structureNotParsedError, panic |-> FALSE]
    ELSE IF IsNilPanics(structure)
    THEN [reader |-> NilReader, err |-> NilErr, panic |-> TRUE]
    ELSE IF structure.isNil
    THEN [reader |-> NilReader, err |-> structureNotParsedError, panic |-> FALSE]
    ELSE
    LET structureAsBodyBytes == Marshal(structure) IN
    IF structureAsBodyBytes.err # NilErr
    THEN [reader |-> NilReader, err |-> structureAsBodyBytes.err, panic |-> FALSE]
    ELSE [reader |-> [kind |-> "reader", bytes |-> structureAsBodyBytes.bytes], err |-> NilErr, panic |-> FALSE]

\* newBoardService / newEpicService: build a handler that keeps the client
\* it is given; whether construction fails is not decided by agile.go
newBoardService(client, version, fails) ==
    IF fails THEN [handler |-> [kind |-> "nil"], err |-> [kind |-> "errorString", msg |-> "board service"]]
    ELSE [handler |-> [kind |-> "handler", c |-> client, version |-> version], err |-> NilErr]

newEpicService(client, version, fails) ==
    IF fails THEN [handler |-> [kind |-> "nil"], err |-> [kind |-> "errorString", msg |-> "epic service"]]
    ELSE [handler |-> [kind |-> "handler", c |-> client, version |-> version], err |-> NilErr]

\* the address of the Client that New allocates in its return statement
ClientAddr == "client1"

\* New.  The named result client is declared nil and is never assigned
\* before the composite literal of the return statement is evaluated.
New(httpClient, site, boardFails, epicFails) ==
    LET client == NilPtr
        http == IF httpClient = NilPtr THEN "http.DefaultClient" ELSE httpClient
        siteAsURL == UrlParse(WithTrailingSlash(site))
    IN  IF siteAsURL.err # NilErr THEN [client |-> NilClient, err |-> siteAsURL.err]
        ELSE
        LET boardHandler == newBoardService(client, "1.0", boardFails) IN
        IF boardHandler.err # NilErr THEN [client |-> NilClient, err |-> boardHandler.err]
        ELSE
        LET epicHandler == newEpicService(client, "1.0", epicFails) IN
        IF epicHandler.err # NilErr THEN [client |-> NilClient, err |-> epicHandler.err]
        ELSE [client |->
                [kind |-> "client", addr |-> ClientAddr,
                 HTTP |-> http,
                 Site |-> siteAsURL.url,
                 Auth |-> [client |-> client, basicAuthProvided |-> FALSE, mail |-> "",
                           token |-> "", userAgentProvided |-> FALSE, agent |-> ""],
                 Sprint |-> [client |-> client],
                 Board |-> [c |-> client, version |-> "1.0"],
                 Epic |-> [c |-> client, version |-> "1.0"],
                 BoardV2 |-> boardHandler.handler,
                 EpicV2 |-> epicHandler.handler],
              err |-> NilErr]

\* the handles of a Client and the back-reference each one holds
Handles == {"Auth", "Sprint", "Board", "Epic", "BoardV2", "EpicV2"}
BackRef(cl, handle) ==
    IF handle \in {"Auth", "Sprint"} THEN cl[handle].client ELSE cl[handle].c

\* ------------------------------------------------------------- the state
VARIABLES
    client,      \* the Client returned by New, NilClient before and on failure
    pc,          \* where the program is: start, failed, idle, serialized, built, returned, panicked
    lastOp,      \* the routine that ran last
    receiver,    \* the *Client the current operation runs on: an address or NilPtr
    payload,     \* the structure handed to transformStructToReader
    reader,      \* the reader it returned
    apiEndpoint, \* the relative path handed to newRequest
    request,     \* the request newRequest returned
    outcome,     \* what the transport did with the request
    response,    \* the response the transport returned
    structure,   \* the destination structure
    result,      \* the envelope returned
    err,         \* the error returned by the last routine
    attempts,    \* transport invocations of the current operation
    transformed  \* whether the Response Transformer ran in the current operation

vars == <<client, pc, lastOp, receiver, payload, reader, apiEndpoint, request, outcome,
          response, structure, result, err, attempts, transformed>>

NoOutcome == [kind |-> "nil"]
NoPath == [ok |-> TRUE, abs |-> FALSE, segs |-> << >>]

Init ==
    /\ client = NilClient
    /\ pc = "start"
    /\ lastOp = "none"
    /\ receiver = NilPtr
    /\ payload = NilStructure
    /\ reader = NilReader
    /\ apiEndpoint = NoPath
    /\ request = NilRequest
    /\ outcome = NoOutcome
    /\ response = NilResponse
    /\ structure = NilStructure
    /\ result = NilEnvelope
    /\ err = NilErr
    /\ attempts = 0
    /\ transformed = FALSE

opLocals == <<receiver, payload, reader, apiEndpoint, request, outcome, response, structure,
              result, attempts, transformed>>

\* the program constructs its Client
Construct ==
    /\ pc = "start"
    /\ \E httpClient \in HTTPClients, site \in SiteStrings, boardFails \in BOOLEAN, epicFails \in BOOLEAN :
          LET r == New(httpClient, site, boardFails, epicFails) IN
          /\ client' = r.client
          /\ err' = r.err
          /\ pc' = IF r.err = NilErr THEN "idle" ELSE "failed"
    /\ lastOp' = "New"
    /\ UNCHANGED opLocals

\* AuthenticationService.SetBasicAuth: the credentials are set once
SetBasicAuth ==
    /\ pc = "idle"
    /\ ~client.Auth.basicAuthProvided
    /\ \E mail \in Mails, token \in Tokens :
          client' = [client EXCEPT !.Auth.basicAuthProvided = TRUE,
                                   !.Auth.mail = mail, !.Auth.token = token]
    /\ UNCHANGED <<pc, lastOp, err, opLocals>>

\* AuthenticationService.SetUserAgent
SetUserAgent ==
    /\ pc = "idle"
    /\ ~client.Auth.userAgentProvided
    /\ \E agent \in Agents :
          client' = [client EXCEPT !.Auth.userAgentProvided = TRUE, !.Auth.agent = agent]
    /\ UNCHANGED <<pc, lastOp, err, opLocals>>

\* a caller serializes its payload with Client.transformStructToReader
Serialize ==
    /\ pc = "idle"
    /\ \E s \in Payloads :
          LET r == ClientTransformStructToReader(s) IN
          /\ payload' = s
          /\ reader' = r.reader
          /\ err' = r.err
          /\ pc' = IF r.panic THEN "panicked" ELSE IF r.err = NilErr THEN "serialized" ELSE "returned"
    /\ lastOp' = "Client.transformStructToReader"
    /\ UNCHANGED <<client, receiver, apiEndpoint, request, outcome, response, structure, result,
                   attempts, transformed>>

\* a caller serializes its payload with the top-level transformStructToReader
SerializeTopLevel ==
    /\ pc = "idle"
    /\ \E s \in Payloads :
          LET r == transformStructToReader(s) IN
          /\ payload' = s
          /\ reader' = r.reader
          /\ err' = r.err
          /\ pc' = IF r.panic THEN "panicked" ELSE IF r.err = NilErr THEN "serialized" ELSE "returned"
    /\ lastOp' = "transformStructToReader"
    /\ UNCHANGED <<client, receiver, apiEndpoint, request, outcome, response, structure, result,
                   attempts, transformed>>

\* a caller builds its request with newRequest, on the Client itself or on
\* the Client a handle refers to
BuildRequest ==
    /\ pc \in {"idle", "serialized"}
    /\ \E rcv \in {client.addr} \cup {BackRef(client, h) : h \in Handles},
          ctx \in Contexts, method \in Methods, path \in Paths :
          LET c == IF rcv = NilPtr THEN NilClient ELSE client
              r == newRequest(c, ctx, method, path, reader)
          IN  /\ receiver' = rcv
              /\ apiEndpoint' = path
              /\ request' = r.request
              /\ err' = r.err
              /\ pc' = IF r.panic THEN "panicked" ELSE "built"
    /\ lastOp' = "newRequest"
    /\ UNCHANGED <<client, payload, reader, outcome, response, structure, result, attempts, transformed>>

\* the callers of newRequest and call: a caller that got an error from
\* newRequest returns it, and hands the request to call otherwise
CallerProceeds == pc = "built" /\ err = NilErr

CallerReturnsError ==
    /\ pc = "built"
    /\ err # NilErr
    /\ pc' = "returned"
    /\ UNCHANGED <<client, lastOp, err, opLocals>>

\* the caller executes the request with Client.call
Execute ==
    /\ CallerProceeds
    /\ \E o \in DoOutcomes, dest \in Destinations :
          LET c == IF receiver = NilPtr THEN NilClient ELSE client
              r == call(c, request, dest, o)
          IN  /\ structure' = dest
              /\ outcome' = o
              /\ response' = r.response
              /\ result' = r.result
              /\ err' = r.err
              /\ attempts' = attempts + r.attempts
              /\ transformed' = r.transformed
              /\ pc' = IF r.panic THEN "panicked" ELSE "returned"
    /\ lastOp' = "call"
    /\ UNCHANGED <<client, receiver, payload, reader, apiEndpoint, request>>

\* a request as the transport is handed one, for the responses given to
\* the top-level transformTheHTTPResponse
SampleRequest ==
    [kind |-> "request", Method |-> "GET", URL |-> <<"example", "rest", "agile", "board">>,
     Body |-> NilReader, Header |-> NoHeader]

\* the top-level transformTheHTTPResponse applied to a response
Transform ==
    /\ pc = "idle"
    /\ \E rsp \in {NilResponse} \cup
                  {HTTPDo(SampleRequest, o).response : o \in {d \in DoOutcomes : d.err = NilErr}},
          dest \in Destinations :
          LET r == transformTheHTTPResponse(rsp, dest) IN
          /\ structure' = dest
          /\ response' = rsp
          /\ result' = r.result
          /\ err' = r.err
    /\ transformed' = TRUE
    /\ pc' = "returned"
    /\ lastOp' = "transformTheHTTPResponse"
    /\ UNCHANGED <<client, receiver, payload, reader, apiEndpoint, request, outcome, attempts>>

\* the operation is over; the next one starts from a clean slate
Return ==
    /\ pc = "returned"
    /\ pc' = "idle"
    /\ lastOp' = "none"
    /\ receiver' = NilPtr
    /\ payload' = NilStructure
    /\ reader' = NilReader
    /\ apiEndpoint' = NoPath
    /\ request' = NilRequest
    /\ outcome' = NoOutcome
    /\ response' = NilResponse
    /\ structure' = NilStructure
    /\ result' = NilEnvelope
    /\ err' = NilErr
    /\ attempts' = 0
    /\ transformed' = FALSE
    /\ UNCHANGED client

Next ==
    \/ Construct
    \/ SetBasicAuth
    \/ SetUserAgent
    \/ Serialize
    \/ SerializeTopLevel
    \/ BuildRequest
    \/ CallerReturnsError
    \/ Execute
    \/ Transform
    \/ Return

Spec == Init /\ [][Next]_vars

\* ------------------------------------------------------------ properties
\* a Response Transformer (either routine) has returned for a response
TransformerReturned ==
    /\ pc = "returned"
    /\ lastOp \in {"call", "transformTheHTTPResponse"}
    /\ response # NilResponse

InSuccessRange(code) == code >= 200 /\ code < 300

EnvelopeDescribes(env, rsp) ==
    /\ env # NilEnvelope
    /\ env.Code = rsp.StatusCode
    /\ env.Endpoint = rsp.Request.URL
    /\ env.Method = rsp.Request.Method

\* C1 (as stated): for every response with a status code in [200,300), with
\* or without a destination structure, the transformer returns a populated
\* envelope, a nil error and raw bytes equal to the response body.
C1_EverySuccessStatusHasNilError ==
    (TransformerReturned /\ InSuccessRange(response.StatusCode))
        => /\ EnvelopeDescribes(result, response)
           /\ err = NilErr
           /\ result.Bytes = response.Body.data

\* C1 (amended): for every response with a status code in [200,300) whose
\* body is read without error and, when a destination structure is supplied,
\* decodes into it, the transformer returns a populated envelope, a nil
\* error and raw bytes equal to the response body.
C1_ReadableDecodableSuccess ==
    (/\ TransformerReturned
     /\ InSuccessRange(response.StatusCode)
     /\ ~response.Body.fail
     /\ (structure = NilStructure \/ Unmarshal(response.Body.data, structure) = NilErr))
        => /\ EnvelopeDescribes(result, response)
           /\ err = NilErr
           /\ result.Bytes = response.Body.data

C1_Witness ==
    /\ TransformerReturned
    /\ lastOp = "transformTheHTTPResponse"
    /\ response.StatusCode = 299
    /\ structure = [kind |-> "slice"]
    /\ err = NilErr
    /\ result.Bytes = <<"[", "]">>

\* C2: for every response with a status code outside [200,300), the
\* transformer returns the request-failed error carrying exactly that status
\* code and a non-nil envelope whose Code, Endpoint and Method are the
\* response's status code, request URL and request method.
C2_FailureStatusHasErrorAndEnvelope ==
    (TransformerReturned /\ ~InSuccessRange(response.StatusCode))
        => /\ err = Errorf(requestFailedError, response.StatusCode)
           /\ EnvelopeDescribes(result, response)

C2_Witness ==
    /\ TransformerReturned
    /\ lastOp = "call"
    /\ response.StatusCode = 300
    /\ response.Request # request
    /\ err.arg = 300
    /\ result.Code = 300

\* C3: on the success path with the body read without error, the envelope
\* holds the raw body bytes, also when decoding into the destination fails.
C3_BytesKeptOnDecodeFailure ==
    (TransformerReturned /\ InSuccessRange(response.StatusCode) /\ ~response.Body.fail)
        => /\ result # NilEnvelope
           /\ result.Bytes = response.Body.data

\* C4: call returns a nil envelope exactly when the transport returned an
\* error; whenever the transport returned a response the envelope is
\* non-nil and its Code, Endpoint and Method come from that response.
C4_EnvelopeNilIffTransportError ==
    (pc = "returned" /\ lastOp = "call")
        => /\ (result = NilEnvelope) <=> (outcome.err # NilErr)
           /\ (outcome.err = NilErr) => EnvelopeDescribes(result, HTTPDo(request, outcome).response)

C4_Witness ==
    /\ pc = "returned"
    /\ lastOp = "call"
    /\ outcome.err = NilErr
    /\ err = [kind |-> "SyntaxError"]
    /\ result # NilEnvelope
    /\ result.Code = 200

\* C5: the envelope of every completed call holds the response headers.
C5_EnvelopeHoldsHeaders ==
    (TransformerReturned /\ result # NilEnvelope)
        => result.Headers = response.Header

\* C6: for an absent payload reference (untyped nil or typed nil pointer)
\* both transformStructToReader routines return structureNotParsedError and
\* no reader; for a non-nil encodable reference they return a reader of the
\* encoding and a nil error.
IsAbsent(s) == s = NilStructure \/ (s.kind = "ptr" /\ s.isNil)
IsEncodableReference(s) == s # NilStructure /\ s.kind \in {"ptr", "slice", "map"} /\ ~s.isNil

C6_AbsentPayloadIsRejected ==
    (lastOp \in {"transformStructToReader", "Client.transformStructToReader"})
        => /\ IsAbsent(payload) =>
                /\ pc = "returned"
                /\ err = structureNotParsedError
                /\ reader = NilReader
           /\ IsEncodableReference(payload) =>
                /\ pc = "serialized"
                /\ err = NilErr
                /\ reader # NilReader
                /\ reader.bytes = Encode(payload.val)

C6_Witness ==
    /\ lastOp = "transformStructToReader"
    /\ payload.kind = "ptr"
    /\ payload.isNil
    /\ err = structureNotParsedError

\* C7: for a malformed relative path newRequest fails with the URL-parse
\* error and returns no request, and the transport is not invoked; a
\* transport invocation is preceded by a newRequest that parsed the path and
\* built the request.
C7_NoTransportOnMalformedPath ==
    /\ (lastOp = "newRequest" /\ ~apiEndpoint.ok)
          => /\ pc \in {"built", "returned"}
             /\ err = Errorf(urlParsedError, UrlParse(apiEndpoint).err)
             /\ request = NilRequest
             /\ attempts = 0
    /\ (attempts > 0)
          => /\ apiEndpoint.ok
             /\ request # NilRequest
             /\ request.URL = ResolveReference(client.Site, apiEndpoint)

C7_Witness ==
    /\ lastOp = "newRequest"
    /\ ~apiEndpoint.ok
    /\ pc = "returned"
    /\ err.format = urlParsedError

\* C8: every call invokes the transport exactly once whatever the outcome;
\* on a transport error it returns that error unchanged and the Response
\* Transformer does not run.
C8_SingleAttempt ==
    (pc = "returned" /\ lastOp = "call")
        => /\ attempts = 1
           /\ (outcome.err # NilErr) =>
                /\ err = outcome.err
                /\ ~transformed
                /\ result = NilEnvelope
           /\ (outcome.err = NilErr) => transformed

C8_Witness ==
    /\ pc = "returned"
    /\ lastOp = "call"
    /\ outcome.err = [kind |-> "net.Error", msg |-> "timeout"]
    /\ err = outcome.err
    /\ attempts = 1

\* C9: a request built by newRequest has the Authorization header, made of
\* the configured mail and token, exactly when basic-auth is configured, and
\* the User-Agent header, equal to the configured agent, exactly when a
\* user agent is configured; a failed build returns no request.
C9_HeadersFollowConfiguration ==
    (lastOp = "newRequest" /\ pc # "panicked")
        => IF err = NilErr
           THEN /\ request # NilRequest
                /\ ("Authorization" \in DOMAIN request.Header) <=> client.Auth.basicAuthProvided
                /\ client.Auth.basicAuthProvided =>
                      request.Header["Authorization"] = BasicAuthValue(client.Auth.mail, client.Auth.token)
                /\ ("User-Agent" \in DOMAIN request.Header) <=> client.Auth.userAgentProvided
                /\ client.Auth.userAgentProvided =>
                      request.Header["User-Agent"] = <<client.Auth.agent>>
           ELSE request = NilRequest

C9_Witness ==
    /\ lastOp = "newRequest"
    /\ pc = "built"
    /\ err = NilErr
    /\ client.Auth.basicAuthProvided
    /\ ~client.Auth.userAgentProvided
    /\ DOMAIN request.Header = {"Authorization"}

\* C10: after New succeeds every handle of the returned Client refers back
\* to that Client; when New fails it returns a nil Client and an error.
C10_HandlesReferToClient ==
    /\ (client # NilClient) => \A h \in Handles : BackRef(client, h) = client.addr
    /\ (pc = "failed") => (client = NilClient /\ err # NilErr)

====
